---- MODULE Spec2Model ----
(***************************************************************************)
(* Like-day similarity engine of helioscta-pjm-da:                         *)
(*   backend/src/pjm_like_day/like_day.py   (find_like_days)               *)
(*   backend/src/pjm_like_day/pipeline.py   (run, _pull_and_prefix)        *)
(*   backend/src/api.py                     (POST /like-day)               *)
(*                                                                         *)
(* Numbers.  Prices and weights are integers.  Every quantity the code     *)
(* computes in floating point (metric values, mean, std, z-scores,         *)
(* distance, similarity) is a fixed-point number: the integer x stands for *)
(* x / Scale.  Each division and each square root rounds, as the float     *)
(* operation does; multiplication by an integer weight is exact.  The      *)
(* values float division by zero produces (nan, inf, -inf) are kept as     *)
(* such: a Float is a record [k, v] with k in "fin", "nan", "pinf",        *)
(* "ninf".                                                                 *)
(*                                                                         *)
(* The cosine distance alone is also computed in binary floating point     *)
(* (section "Binary floating point"): a number is a significand of         *)
(* Precision bits and an exponent, and every operation rounds to nearest,  *)
(* ties to even, as an IEEE double does with 53 bits.                      *)
(*                                                                         *)
(* Frames.  A DataFrame with one row per (date, hour_ending) is a function *)
(* from a set of <<date, hour>> keys to the row's [column |-> value].      *)
(* The code never reads the row order of its inputs: it groups by date     *)
(* (groupby sorts the keys) and sorts every group by hour.                 *)
(***************************************************************************)
EXTENDS Integers, Sequences, FiniteSets, TLC

VARIABLES
    pc,               \* where the request, the run or the call is
    source,           \* the price source: market |-> frame of the LMP columns
    query,            \* the query parameters of POST /like-day
    args,             \* the arguments of pipeline.run
    df,               \* run: the joined, hour-filtered table
    df_target,        \* find_like_days: hourly rows of the target date
    df_hist,          \* find_like_days: hourly rows of the historical pool
    feature_weights,  \* find_like_days: dict {column: weight}, in key order
    n_neighbors,      \* find_like_days: number of like days asked for
    metric,           \* find_like_days: metric name
    raw_df,           \* find_like_days: one row per compared day
    feat_stats,       \* find_like_days: column |-> <<mean, std>>
    results,          \* find_like_days: the returned rows
    error,            \* message of the exception raised, "" when none
    prev,             \* rows returned by the call before the last one
    output,           \* run: the returned dict, None when nothing was returned
    pulls,            \* number of lmps.pull calls made
    response          \* POST /like-day: the HTTP response

vars == <<pc, source, query, args, df, df_target, df_hist, feature_weights,
          n_neighbors, metric, raw_df, feat_stats, results, error, prev, output,
          pulls, response>>

\* Optional values: None is the empty set, a value x is {x}
None == {}
Some(x) == {x}
The(o) == CHOOSE x \in o : TRUE

----------------------------------------------------------------------------
(* Bounds of the model *)

Scale == 1000
MaxVal == 2
MaxN == 2
Precision == 12

----------------------------------------------------------------------------
(* Fixed-point and float helpers *)

Abs(x) == IF x < 0 THEN -x ELSE x

\* a / b rounded toward zero, b # 0
Quot(a, b) ==
    LET q == Abs(a) \div Abs(b)
    IN  IF (a < 0) = (b < 0) THEN q ELSE -q

RECURSIVE SqrtSearch(_, _, _)
SqrtSearch(x, lo, hi) ==
    IF lo >= hi THEN lo
    ELSE LET mid == (lo + hi + 1) \div 2
         IN  IF mid * mid <= x THEN SqrtSearch(x, mid, hi)
                               ELSE SqrtSearch(x, lo, mid - 1)

\* the integer square root of x >= 0 (46340 * 46340 is the largest square TLC holds)
ISqrt(x) == SqrtSearch(x, 0, IF x < 46340 THEN x ELSE 46340)

\* np.sqrt of the fixed-point number x: sqrt(x / Scale) * Scale, rounded down
FSqrt(x) == ISqrt(x * Scale)

RECURSIVE SeqSum(_)
SeqSum(s) == IF s = <<>> THEN 0 ELSE Head(s) + SeqSum(Tail(s))

Range(s) == {s[i] : i \in DOMAIN s}

Fin(x) == [k |-> "fin", v |-> x]
NaN == [k |-> "nan", v |-> 0]
PInf == [k |-> "pinf", v |-> 0]
NInf == [k |-> "ninf", v |-> 0]

IsNaN(a) == a.k = "nan"

\* a < b on floats: false when either is nan
FLt(a, b) ==
    CASE IsNaN(a) \/ IsNaN(b) -> FALSE
      [] a.k = "ninf" -> b.k # "ninf"
      [] a.k = "pinf" -> FALSE
      [] b.k = "ninf" -> FALSE
      [] b.k = "pinf" -> TRUE
      [] OTHER -> a.v < b.v

\* a - b on floats
FSub(a, b) ==
    CASE IsNaN(a) \/ IsNaN(b) -> NaN
      [] a.k = "fin" /\ b.k = "fin" -> Fin(a.v - b.v)
      [] a.k = b.k -> NaN
      [] a.k = "pinf" \/ b.k = "ninf" -> PInf
      [] OTHER -> NInf

\* a / b on floats, b a positive float (the code divides by dist_range > 0)
FDiv(a, b) ==
    CASE IsNaN(a) \/ IsNaN(b) -> NaN
      [] a.k = "fin" /\ b.k = "fin" -> Fin(Quot(a.v * Scale, b.v))
      [] a.k = "fin" -> Fin(0)
      [] b.k = "fin" -> a
      [] OTHER -> NaN

\* the fixed-point number x divided by the integer w: x / 0 is inf, -inf or nan
FDivInt(x, w) ==
    IF w # 0 THEN Fin(Quot(x, w))
    ELSE IF x > 0 THEN PInf ELSE IF x < 0 THEN NInf ELSE NaN

----------------------------------------------------------------------------
(* Frames *)

RECURSIVE SortSet(_)
\* the elements of a finite set of integers in ascending order
SortSet(S) ==
    IF S = {} THEN <<>>
    ELSE LET m == CHOOSE x \in S : \A y \in S : x <= y
         IN  <<m>> \o SortSet(S \ {m})

EmptyFrame == [k \in {} |-> 0]

FrameDates(frame) == {k[1] : k \in DOMAIN frame}

\* df.columns of a frame that has rows
Columns(frame) == UNION {DOMAIN frame[k] : k \in DOMAIN frame}

\* df[df[date] == d]
RowsOfDate(frame, d) == [k \in {kk \in DOMAIN frame : kk[1] = d} |-> frame[k]]

\* the keys of df.sort_values(hour_ending); a frame handed to the engine as the
\* target, or one group of the pool, holds the rows of one date
SortedKeys(frame) ==
    LET hs == SortSet({k[2] : k \in DOMAIN frame})
    IN  [i \in 1..Len(hs) |-> CHOOSE k \in DOMAIN frame : k[2] = hs[i]]

\* sorted[col].values
ColValues(frame, col) ==
    LET ks == SortedKeys(frame)
    IN  [i \in 1..Len(ks) |-> frame[ks[i]][col]]

----------------------------------------------------------------------------
(* like_day.py *)

SumAbs(diff) == SeqSum([i \in DOMAIN diff |-> Abs(diff[i])])
SumSq(v) == SeqSum([i \in DOMAIN v |-> v[i] * v[i]])
Dot(u, v) == SeqSum([i \in DOMAIN u |-> u[i] * v[i]])

\* np.abs(diff).mean()
MeanAbs(diff) == Quot(SumAbs(diff) * Scale, Len(diff))

\* np.linalg.norm(v)
Norm(v) == FSqrt(SumSq(v) * Scale)

\* 1 - dot / (|t| * |h|), or 1.0 when the product of the norms is 0
CosineDistance(target_flat, hist_flat) ==
    LET denom == Quot(Norm(target_flat) * Norm(hist_flat), Scale)
    IN  IF denom = 0 THEN Scale
        ELSE Scale - Quot(Dot(target_flat, hist_flat) * Scale * Scale, denom)

\* faulty variant: a name that is none of the four is taken for cosine
ComputeMetricElseCosine(diff, m, target_flat, hist_flat) ==
    CASE m = "mae" -> MeanAbs(diff)
      [] m = "rmse" -> FSqrt(Quot(SumSq(diff) * Scale, Len(diff)))
      [] m = "euclidean" -> FSqrt(SumSq(diff) * Scale)
      [] OTHER -> CosineDistance(target_flat, hist_flat)

\* _compute_metric: find_like_days always passes both flat vectors
ComputeMetric(diff, m, target_flat, hist_flat) ==
    CASE m = "mae" -> MeanAbs(diff)
      [] m = "rmse" -> FSqrt(Quot(SumSq(diff) * Scale, Len(diff)))
      [] m = "euclidean" -> FSqrt(SumSq(diff) * Scale)
      [] m = "cosine" -> CosineDistance(target_flat, hist_flat)
      [] OTHER -> MeanAbs(diff)

\* a dict: its keys in insertion order, and the value of each key
EmptyDict == [keys |-> <<>>, val |-> [c \in {} |-> 0]]

\* configs.FEATURE_COLS
FEATURE_COLS ==
    <<"lmp_total", "lmp_system_energy_price", "lmp_congestion_price",
      "lmp_marginal_loss_price">>

\* faulty variant: a weight of 0 is taken for a missing weight and replaced by 1.0
ResolveWeightsOrOne(fw, feature_cols) ==
    IF Len(fw.keys) > 0
    THEN [c \in DOMAIN fw.val |-> IF fw.val[c] = 0 THEN 1 ELSE fw.val[c]]
    ELSE [c \in Range(feature_cols) |-> 1]

\* lines 62-66: a dict that is None or empty falls back to feature_cols, weight 1.0
ResolveCols(fw, feature_cols) ==
    IF Len(fw.keys) > 0 THEN fw.keys ELSE feature_cols

ResolveWeights(fw, feature_cols) ==
    IF Len(fw.keys) > 0 THEN fw.val ELSE [c \in Range(feature_cols) |-> 1]

\* len(group): the number of hourly rows of date d
HourCount(frame, d) == Cardinality(DOMAIN RowsOfDate(frame, d))

\* lines 89-94: the row of raw per-feature distances of one historical day
RawRow(target, group, d, cols, m) ==
    [date |-> d,
     raw |-> [c \in Range(cols) |->
                LET t_vals == ColValues(target, c)
                    h_vals == ColValues(group, c)
                    diff == [i \in DOMAIN t_vals |-> t_vals[i] - h_vals[i]]
                IN  ComputeMetric(diff, m, t_vals, h_vals)],
     distance |-> Fin(0)]

\* faulty variant: days with more hours than the target are compared too
ComparableAtLeast(target, hist, d) == HourCount(hist, d) >= Cardinality(DOMAIN target)

\* line 86: only days with exactly the target's number of hours are compared
Comparable(target, hist, d) == HourCount(hist, d) = Cardinality(DOMAIN target)

\* lines 80-96, pass 1: groupby(date) visits the dates in ascending order
RawResults(target, hist, cols, m) ==
    LET dates == SelectSeq(SortSet(FrameDates(hist)),
                           LAMBDA d : Comparable(target, hist, d))
    IN  [i \in 1..Len(dates) |->
            RawRow(target, RowsOfDate(hist, dates[i]), dates[i], cols, m)]

\* Series.mean()
Mean(xs) == Quot(SeqSum(xs), Len(xs))

\* Series.std(): the sample standard deviation (ddof = 1), nan for one value
Std(xs) ==
    IF Len(xs) < 2 THEN NaN
    ELSE LET mu == Mean(xs)
             ss == SeqSum([i \in DOMAIN xs |-> (xs[i] - mu) * (xs[i] - mu)])
         IN  Fin(ISqrt(Quot(ss, Len(xs) - 1)))

\* lines 107-113: mean and std of each feature over all compared days
FeatStats(raw, cols) ==
    [c \in Range(cols) |->
        LET xs == [i \in DOMAIN raw |-> raw[i].raw[c]]
            std == Std(xs)
        IN  <<Mean(xs), IF IsNaN(std) \/ std.v = 0 THEN Scale ELSE std.v>>]

\* line 104
WeightSum(weights, cols) == SeqSum([i \in DOMAIN cols |-> weights[cols[i]]])

\* faulty variant: the accumulator starts at the first feature's z-score, not at 0.0
BlendedDistanceSeeded(row, stats, weights, cols) ==
    LET z(c) == Quot((row.raw[c] - stats[c][1]) * Scale, stats[c][2])
        acc == z(cols[1]) + SeqSum([i \in DOMAIN cols |-> weights[cols[i]] * z(cols[i])])
    IN  FDivInt(acc, WeightSum(weights, cols))

\* faulty variant: the z-score is taken as mean - distance
BlendedDistanceReversed(row, stats, weights, cols) ==
    LET acc == SeqSum([i \in DOMAIN cols |->
                  weights[cols[i]]
                    * Quot((stats[cols[i]][1] - row.raw[cols[i]]) * Scale,
                           stats[cols[i]][2])])
    IN  FDivInt(acc, WeightSum(weights, cols))

\* lines 116-121: the weighted sum of z-scores, divided by the weight sum
BlendedDistance(row, stats, weights, cols) ==
    LET acc == SeqSum([i \in DOMAIN cols |->
                  weights[cols[i]]
                    * Quot((row.raw[cols[i]] - stats[cols[i]][1]) * Scale,
                           stats[cols[i]][2])])
    IN  FDivInt(acc, WeightSum(weights, cols))

RECURSIVE StableSort(_)

\* faulty variant: a row goes before the rows of the same distance
SortTiesReversed(rows) ==
    IF rows = <<>> THEN <<>>
    ELSE LET init == StableSort(SubSeq(rows, 1, Len(rows) - 1))
             x == rows[Len(rows)]
             k == Cardinality({i \in DOMAIN init :
                                  FLt(init[i].distance, x.distance)})
         IN  SubSeq(init, 1, k) \o <<x>> \o SubSeq(init, k + 1, Len(init))

\* the rows by ascending distance, equal distances in their order in the frame
StableSort(rows) ==
    IF rows = <<>> THEN <<>>
    ELSE LET init == StableSort(SubSeq(rows, 1, Len(rows) - 1))
             x == rows[Len(rows)]
             k == Cardinality({i \in DOMAIN init :
                                  ~FLt(x.distance, init[i].distance)})
         IN  SubSeq(init, 1, k) \o <<x>> \o SubSeq(init, k + 1, Len(init))

\* faulty variant: head(n), the first n rows in frame order
NSmallestUnsorted(rows, n) ==
    IF n <= 0 THEN <<>> ELSE SubSeq(rows, 1, IF n < Len(rows) THEN n ELSE Len(rows))

\* DataFrame.nsmallest(n, "distance"), keep="first": the n smallest in ascending
\* order, ties in frame order, rows whose distance is nan after all others
NSmallest(rows, n) ==
    LET sorted == StableSort(SelectSeq(rows, LAMBDA r : ~IsNaN(r.distance)))
                    \o SelectSeq(rows, LAMBDA r : IsNaN(r.distance))
    IN  IF n <= 0 THEN <<>>
        ELSE SubSeq(sorted, 1, IF n < Len(sorted) THEN n ELSE Len(sorted))

\* Series.max() and Series.min() skip nan; nan when nothing is left
DistMax(rows) ==
    LET ds == {rows[i].distance : i \in DOMAIN rows} \ {NaN}
    IN  IF ds = {} THEN NaN ELSE CHOOSE d \in ds : \A e \in ds : ~FLt(d, e)

DistMin(rows) ==
    LET ds == {rows[i].distance : i \in DOMAIN rows} \ {NaN}
    IN  IF ds = {} THEN NaN ELSE CHOOSE d \in ds : \A e \in ds : ~FLt(e, d)

\* faulty variant: the scaled distance itself, without "1.0 -"
SimilarityNotComplemented(d, min_dist, max_dist) ==
    LET dist_range == FSub(max_dist, min_dist)
    IN  IF FLt(Fin(0), dist_range)
        THEN FDiv(FSub(d, min_dist), dist_range)
        ELSE Fin(Scale)

\* lines 127-134
Similarity(d, min_dist, max_dist) ==
    LET dist_range == FSub(max_dist, min_dist)
    IN  IF FLt(Fin(0), dist_range)
        THEN FSub(Fin(Scale), FDiv(FSub(d, min_dist), dist_range))
        ELSE Fin(Scale)

\* lines 123-136: top-N, ranks 1..len, similarity, the four returned columns
RankRows(rows, n) ==
    LET top == NSmallest(rows, n)
    IN  [i \in DOMAIN top |->
            [date |-> top[i].date, rank |-> i, distance |-> top[i].distance,
             similarity |-> Similarity(top[i].distance, DistMin(top), DistMax(top))]]

\* faulty variant: no check of the target's rows nor of the compared days; an empty result
FindLikeDaysUnchecked(target, hist, fw, feature_cols, n, m) ==
    LET cols == ResolveCols(fw, feature_cols)
        weights == ResolveWeights(fw, feature_cols)
        raw == IF Cardinality(DOMAIN target) = 0 THEN <<>>
               ELSE RawResults(target, hist, cols, m)
        stats == FeatStats(raw, cols)
        blended == [i \in DOMAIN raw |->
                      [raw[i] EXCEPT !.distance =
                          BlendedDistance(raw[i], stats, weights, cols)]]
    IN  IF raw = <<>>
        THEN [error |-> "", raw_df |-> <<>>, feat_stats |-> <<>>, results |-> <<>>]
        ELSE [error |-> "", raw_df |-> blended, feat_stats |-> stats,
              results |-> RankRows(blended, n)]

\* find_like_days: what it raises or returns, with the frames it builds on the way
FindLikeDays(target, hist, fw, feature_cols, n, m) ==
    LET cols == ResolveCols(fw, feature_cols)
        weights == ResolveWeights(fw, feature_cols)
        raw == RawResults(target, hist, cols, m)
        stats == FeatStats(raw, cols)
        blended == [i \in DOMAIN raw |->
                      [raw[i] EXCEPT !.distance =
                          BlendedDistance(raw[i], stats, weights, cols)]]
        none == [error |-> "", raw_df |-> <<>>, feat_stats |-> <<>>, results |-> <<>>]
    IN  IF Cardinality(DOMAIN target) = 0
        THEN [none EXCEPT !.error = "Target date has no hourly data"]
        ELSE IF \E c \in Range(cols) : c \notin Columns(target)
        THEN [none EXCEPT !.error = "KeyError"]
        ELSE IF raw = <<>>
        THEN [none EXCEPT !.error = "No historical days matched the target hours"]
        ELSE [error |-> "", raw_df |-> blended, feat_stats |-> stats,
              results |-> RankRows(blended, n)]

----------------------------------------------------------------------------
(* Binary floating point *)

\* Where a claim is about the last bit of a result, the float operations of
\* _compute_metric are carried out in binary floating point with a significand
\* of Precision bits, every operation rounded to nearest, ties to even, as
\* IEEE 754 does with 53 bits.  A float is [k, s, m, e]: kind, sign, and the
\* value s * m * 2^e with m = 0 or 2^(Precision-1) <= m < 2^Precision.

RECURSIVE Pow2(_)
Pow2(n) == IF n <= 0 THEN 1 ELSE 2 * Pow2(n - 1)

\* the number of bits of n >= 0
RECURSIVE Bits(_)
Bits(n) == IF n = 0 THEN 0 ELSE 1 + Bits(n \div 2)

BZero == [k |-> "fin", s |-> 0, m |-> 0, e |-> 0]
BNaN == [k |-> "nan", s |-> 0, m |-> 0, e |-> 0]
BInf == [k |-> "inf", s |-> 1, m |-> 0, e |-> 0]

\* n * 2^e rounded to a float, n > 0; sticky: the exact value is a little
\* above n * 2^e
BRound(n, e, sticky) ==
    LET b == Bits(n)
        k == b - Precision
        q == n \div Pow2(k)
        r == n % Pow2(k)
        half == Pow2(k - 1)
        up == r > half \/ (r = half /\ (sticky \/ q % 2 = 1))
        q1 == IF up THEN q + 1 ELSE q
    IN  IF k <= 0
        THEN [k |-> "fin", s |-> 1, m |-> n * Pow2(-k), e |-> e + k]
        ELSE IF q1 = Pow2(Precision)
        THEN [k |-> "fin", s |-> 1, m |-> Pow2(Precision - 1), e |-> e + k + 1]
        ELSE [k |-> "fin", s |-> 1, m |-> q1, e |-> e + k]

\* float(n) of an integer n >= 0
BFromInt(n) == IF n = 0 THEN BZero ELSE BRound(n, 0, FALSE)

\* a * b, both >= 0
BMul(a, b) ==
    IF a.m = 0 \/ b.m = 0 THEN BZero ELSE BRound(a.m * b.m, a.e + b.e, FALSE)

\* a / b, both >= 0: x / 0 is inf, 0 / 0 is nan
BDiv(a, b) ==
    IF b.m = 0 THEN (IF a.m = 0 THEN BNaN ELSE BInf)
    ELSE IF a.m = 0 THEN BZero
    ELSE LET n == a.m * Pow2(Precision + 2)
         IN  BRound(n \div b.m, a.e - b.e - (Precision + 2), n % b.m # 0)

\* np.sqrt(a), a >= 0
BSqrt(a) ==
    IF a.m = 0 THEN BZero
    ELSE LET sh == Precision + 2 + ((a.e - Precision) % 2)
             n == a.m * Pow2(sh)
             r == ISqrt(n)
         IN  BRound(r, (a.e - sh) \div 2, r * r # n)

\* 1.0 - a, a a finite float >= 0 below 2
BOneMinus(a) ==
    IF a.m = 0 THEN BFromInt(1)
    ELSE LET d == Pow2(-a.e) - a.m
         IN  IF d = 0 THEN BZero
             ELSE IF d > 0 THEN BRound(d, a.e, FALSE)
             ELSE [BRound(-d, a.e, FALSE) EXCEPT !.s = -1]

\* np.linalg.norm(v) of a vector of integers
BNorm(v) == BSqrt(BFromInt(SumSq(v)))

\* lines 23-26 in binary floating point, for vectors of non-negative integers
CosineDistanceFloat(target_flat, hist_flat) ==
    LET denom == BMul(BNorm(target_flat), BNorm(hist_flat))
    IN  IF denom.m = 0 THEN BFromInt(1)
        ELSE BOneMinus(BDiv(BFromInt(Dot(target_flat, hist_flat)), denom))

----------------------------------------------------------------------------
(* pipeline.py *)

LMP_COLS == FEATURE_COLS

\* f"{market}_{col}"
Prefix(market, col) == market \o "_" \o col

\* pandas dayofweek, 0 = Monday .. 6 = Sunday; date 1 is Friday 2026-01-30
PandasDayOfWeek(d) == (d + 3) % 7

\* the month of a date: dates 1 and 2 are January 30 and 31, the next are in February
MonthOf(d) == IF d <= 2 THEN 1 ELSE 2

\* sorted(set(f["market"] for f in features)): "da" < "dart" < "rt"
\* the market names of the model in the order sorted() gives strings
MarketOrder == <<"da", "dart", "rt", "xx">>

\* sorted(set(f["market"] for f in features))
UniqueMarkets(features) ==
    SelectSeq(MarketOrder,
              LAMBDA m : \E i \in DOMAIN features : features[i].market = m)

\* lmps.pull(market): the table of the market; a market the source does not
\* have gives no rows here, the failure of the query is PullFails
Pull(src, market) == IF market \in DOMAIN src THEN src[market] ELSE EmptyFrame

\* _pull_and_prefix: the LMP columns the table has, renamed; date and hour are the key
PullAndPrefix(src, market) ==
    [k \in DOMAIN Pull(src, market) |->
        [c \in {Prefix(market, col) :
                   col \in Range(LMP_COLS) \cap DOMAIN Pull(src, market)[k]} |->
            Pull(src, market)[k][CHOOSE col \in Range(LMP_COLS) : Prefix(market, col) = c]]]

\* faulty variant: how="left", the rows of the left table with what the right one has
MergeLeft(left, right) ==
    [k \in DOMAIN left |-> IF k \in DOMAIN right THEN left[k] @@ right[k] ELSE left[k]]

\* df.merge(df_mkt, on=[date, hour_ending], how="inner")
Merge(left, right) ==
    [k \in DOMAIN left \cap DOMAIN right |-> left[k] @@ right[k]]

\* faulty variant: the loop over dfs[1:] is left out
JoinFirstOnly(dfs) == dfs[1]

RECURSIVE JoinAll(_)
\* lines 79-81: dfs[0] merged with each of dfs[1:] in turn
JoinAll(dfs) ==
    IF Len(dfs) = 1 THEN dfs[1]
    ELSE Merge(JoinAll(SubSeq(dfs, 1, Len(dfs) - 1)), dfs[Len(dfs)])

\* df[mask]
Filter(frame, Keep(_)) == [k \in {kk \in DOMAIN frame : Keep(kk)} |-> frame[k]]

\* lines 86-88
FilterHours(frame, hours) ==
    IF hours = None THEN frame
    ELSE Filter(frame, LAMBDA k : k[2] \in Range(The(hours)))

\* faulty variant: every date other than the target date is historical
SplitHistNotTarget(frame, target_date) == Filter(frame, LAMBDA k : k[1] # target_date)

\* lines 91-93
SplitTarget(frame, target_date) == Filter(frame, LAMBDA k : k[1] = target_date)
SplitHist(frame, target_date) == Filter(frame, LAMBDA k : k[1] < target_date)

\* lines 95-100
FilterDateRange(frame, hist_start, hist_end) ==
    LET from == IF hist_start = None THEN frame
                ELSE Filter(frame, LAMBDA k : k[1] >= The(hist_start))
    IN  IF hist_end = None THEN from
        ELSE Filter(from, LAMBDA k : k[1] <= The(hist_end))

\* faulty variant: the list is matched against pandas' own numbering
FilterDaysOfWeekMonday(frame, days_of_week) ==
    IF days_of_week = None THEN frame
    ELSE Filter(frame, LAMBDA k : PandasDayOfWeek(k[1]) \in Range(The(days_of_week)))

\* lines 103-109: pandas' 0 = Monday is turned into 0 = Sunday .. 6 = Saturday
FilterDaysOfWeek(frame, days_of_week) ==
    IF days_of_week = None THEN frame
    ELSE Filter(frame, LAMBDA k :
                  (PandasDayOfWeek(k[1]) + 1) % 7 \in Range(The(days_of_week)))

\* lines 112-116
FilterMonths(frame, months) ==
    IF months = None THEN frame
    ELSE Filter(frame, LAMBDA k : MonthOf(k[1]) \in Range(The(months)))

\* lines 122-125: a dict comprehension keeps the place of a key's first
\* occurrence and the value of its last
FeatureWeights(features) ==
    LET name(i) == Prefix(features[i].market, features[i].column)
        first == SelectSeq([i \in DOMAIN features |-> i],
                           LAMBDA i : \A j \in 1..(i - 1) : name(j) # name(i))
        last(c) == CHOOSE i \in DOMAIN features :
                      name(i) = c /\ \A j \in DOMAIN features : name(j) = c => j <= i
    IN  [keys |-> [n \in DOMAIN first |-> name(first[n])],
         val |-> [c \in {name(i) : i \in DOMAIN features} |-> features[last(c)].weight]]

\* lines 138-149: the full rows of every market for the like dates and the
\* target date, all hours, keyed by <<market, date, hour>>
HourlyProfiles(src, markets, all_dates) ==
    LET keys == UNION {{<<m, k[1], k[2]>> :
                          k \in {kk \in DOMAIN Pull(src, m) : kk[1] \in all_dates}} :
                          m \in Range(markets)}
    IN  [k \in keys |-> Pull(src, k[1])[<<k[2], k[3]>>]]

\* faulty variant: the hours filter is applied to the pool after the split
AssembleHoursOnPool(src, a) ==
    LET unique_markets == UniqueMarkets(a.features)
        dfs == [i \in DOMAIN unique_markets |-> PullAndPrefix(src, unique_markets[i])]
        joined == JoinAll(dfs)
    IN  [df |-> joined,
         df_target |-> SplitTarget(joined, a.target_date),
         df_hist |-> FilterMonths(
                         FilterDaysOfWeek(
                             FilterDateRange(
                                 FilterHours(SplitHist(joined, a.target_date), a.hours),
                                 a.hist_start, a.hist_end),
                             a.days_of_week),
                         a.months),
         feature_weights |-> FeatureWeights(a.features)]

\* lines 66-125 of run: the frames and the weights handed to find_like_days
Assemble(src, a) ==
    LET unique_markets == UniqueMarkets(a.features)
        dfs == [i \in DOMAIN unique_markets |-> PullAndPrefix(src, unique_markets[i])]
        joined == FilterHours(JoinAll(dfs), a.hours)
    IN  [df |-> joined,
         df_target |-> SplitTarget(joined, a.target_date),
         df_hist |-> FilterMonths(
                         FilterDaysOfWeek(
                             FilterDateRange(SplitHist(joined, a.target_date),
                                             a.hist_start, a.hist_end),
                             a.days_of_week),
                         a.months),
         feature_weights |-> FeatureWeights(a.features)]

----------------------------------------------------------------------------
(* Direct calls of find_like_days *)

Values == 0..MaxVal
Hours == {1, 2}
HistDates == {1, 2}
TargetDate == Cardinality(HistDates) + 1
TargetLevels == {0, 1}
Weights == {0, 1, 2}
Factors == {3}
Metrics == {"mae", "rmse", "euclidean", "cosine", "manhattan"}

FeatA == "da_lmp_total"
FeatB == "rt_lmp_total"

\* the hourly rows of date d at the hours hs: the first feature is flat at
\* level a, the second falls with a and rises with the hour
DayFrame(d, hs, a) ==
    [k \in {<<d, h>> : h \in hs} |->
        (FeatA :> a) @@ (FeatB :> ((MaxVal - a) + k[2]) % (MaxVal + 1))]

DayFrames(d, levels) ==
    {EmptyFrame} \cup {DayFrame(d, hs, a) : hs \in (SUBSET Hours) \ {{}}, a \in levels}

WeightDicts ==
    {[keys |-> <<FeatA>>, val |-> (FeatA :> 1)]}
      \cup {[keys |-> <<FeatA, FeatB>>, val |-> (FeatA :> w1) @@ (FeatB :> w2)] :
              w1 \in Weights, w2 \in Weights}

NoArgs == [target_date |-> 0]
NoQuery == [target_date |-> None]
NoResponse == [status |-> 0, detail |-> "", body |-> None]

Store(out) ==
    /\ raw_df' = out.raw_df
    /\ feat_stats' = out.feat_stats
    /\ results' = out.results
    /\ error' = out.error

InitRank ==
    /\ pc = "call"
    /\ source = <<>>
    /\ query = NoQuery
    /\ args = NoArgs
    /\ df = EmptyFrame
    /\ df_target \in DayFrames(TargetDate, TargetLevels)
    /\ \E d1 \in DayFrames(1, Values), d2 \in DayFrames(2, Values) : df_hist = d1 @@ d2
    /\ feature_weights \in WeightDicts
    /\ n_neighbors \in 1..MaxN
    /\ metric \in Metrics
    /\ raw_df = <<>>
    /\ feat_stats = <<>>
    /\ results = <<>>
    /\ error = ""
    /\ prev = <<>>
    /\ output = None
    /\ pulls = 0
    /\ response = NoResponse

\* results = find_like_days(df_target, df_hist, feature_weights, ...)
CallFindLikeDays ==
    /\ pc = "call"
    /\ LET out == FindLikeDays(df_target, df_hist, feature_weights, FEATURE_COLS,
                               n_neighbors, metric)
       IN  /\ Store(out)
           /\ pc' = IF out.error = "" THEN "returned" ELSE "raised"
    /\ UNCHANGED <<source, query, args, df, df_target, df_hist, feature_weights,
                   n_neighbors, metric, prev, output, pulls, response>>

ScaleWeights(fw, c) == [fw EXCEPT !.val = [col \in DOMAIN fw.val |-> c * fw.val[col]]]

DropZeroWeights(fw) ==
    LET keep == SelectSeq(fw.keys, LAMBDA col : fw.val[col] # 0)
    IN  [keys |-> keep, val |-> [col \in Range(keep) |-> fw.val[col]]]

\* a second call on the same frames with the weights fw
CallAgain(fw, to) ==
    /\ pc = "returned"
    /\ feature_weights' = fw
    /\ LET out == FindLikeDays(df_target, df_hist, fw, FEATURE_COLS, n_neighbors, metric)
       IN  Store(out)
    /\ prev' = results
    /\ pc' = to
    /\ UNCHANGED <<source, query, args, df, df_target, df_hist, n_neighbors, metric,
                   output, pulls, response>>

\* the same call, every weight multiplied by c
CallScaled(c) == CallAgain(ScaleWeights(feature_weights, c), "rescaled")

\* the same call, the zero-weight features left out
CallWithoutZero ==
    /\ \E col \in DOMAIN feature_weights.val : feature_weights.val[col] = 0
    /\ \E col \in DOMAIN feature_weights.val : feature_weights.val[col] # 0
    /\ CallAgain(DropZeroWeights(feature_weights), "dropped")

NextRank ==
    \/ CallFindLikeDays
    \/ \E c \in Factors : CallScaled(c)
    \/ CallWithoutZero

SpecRank == InitRank /\ [][NextRank]_vars

----------------------------------------------------------------------------
(* Calls of pipeline.run *)

RunDates == {1, 2, 3}
RunTargets == {2, 3}

IndexOf(seq, x) == CHOOSE i \in DOMAIN seq : seq[i] = x

\* the price the source holds for a market, a column, a date and an hour
Price(m, c, d, h) ==
    (IndexOf(<<"da", "dart", "rt">>, m) * d + IndexOf(LMP_COLS, c) + h) % (MaxVal + 1)

\* the table of market m with the hours hours_of[d] of each date d
MarketTable(m, hours_of) ==
    [k \in {<<d, h>> : d \in DOMAIN hours_of, h \in Hours} \cap
           UNION {{<<d, h>> : h \in hours_of[d]} : d \in DOMAIN hours_of}
     |-> [c \in Range(LMP_COLS) |-> Price(m, c, k[1], k[2])]]

\* da has each date in full, short by an hour, or not at all; rt in full or
\* not at all; dart has every date in full
Sources ==
    {("da" :> MarketTable("da", f)) @@ ("rt" :> MarketTable("rt", g))
        @@ ("dart" :> MarketTable("dart", [d \in RunDates |-> Hours])) :
     f \in [RunDates -> {{}, {1}, Hours}], g \in [RunDates -> {{}, Hours}]}

Feature(m, c, w) == [market |-> m, column |-> c, weight |-> w]

FeatureLists ==
    {<<Feature("da", "lmp_total", 1)>>,
     <<Feature("da", "lmp_total", 2), Feature("rt", "lmp_total", 1)>>,
     <<Feature("rt", "lmp_congestion_price", 1), Feature("dart", "lmp_total", 0)>>,
     <<Feature("da", "lmp_total", 1), Feature("da", "lmp_total", 2)>>}

RunArgs ==
    [target_date : RunTargets,
     features : FeatureLists,
     n_neighbors : {MaxN},
     metric : {"cosine"},
     hist_start : {None, Some(2)},
     hist_end : {None, Some(1), Some(3)},
     hours : {None, Some(<<1>>)},
     days_of_week : {None, Some(<<6, 0>>)},
     months : {None, Some(<<1>>), Some(<<2>>)}]

InitRun ==
    /\ pc = "run"
    /\ source \in Sources
    /\ query = NoQuery
    /\ args \in RunArgs
    /\ df = EmptyFrame
    /\ df_target = EmptyFrame
    /\ df_hist = EmptyFrame
    /\ feature_weights = EmptyDict
    /\ n_neighbors = 0
    /\ metric = ""
    /\ raw_df = <<>>
    /\ feat_stats = <<>>
    /\ results = <<>>
    /\ error = ""
    /\ prev = <<>>
    /\ output = None
    /\ pulls = 0
    /\ response = NoResponse

\* run, lines 66-132: pull every market, join, filter, split, filter the pool,
\* build the weights and call find_like_days
RunAssemble ==
    /\ pc = "run"
    /\ LET a == Assemble(source, args)
       IN  /\ df' = a.df
           /\ df_target' = a.df_target
           /\ df_hist' = a.df_hist
           /\ feature_weights' = a.feature_weights
    /\ n_neighbors' = args.n_neighbors
    /\ metric' = args.metric
    /\ pulls' = pulls + Len(UniqueMarkets(args.features))
    /\ pc' = "call"
    /\ UNCHANGED <<source, query, args, raw_df, feat_stats, results, error, prev,
                   output, response>>

\* run, lines 134-156: after find_like_days has returned, pull every market
\* again for the hourly profiles and return
RunProfiles ==
    /\ pc = "returned"
    /\ args # NoArgs
    /\ pulls' = pulls + Len(UniqueMarkets(args.features))
    /\ output' = Some([like_days |-> results,
                       hourly_profiles |->
                           HourlyProfiles(source, UniqueMarkets(args.features),
                               {results[i].date : i \in DOMAIN results}
                                   \cup {args.target_date}),
                       target_date |-> args.target_date])
    /\ pc' = "done"
    /\ UNCHANGED <<source, query, args, df, df_target, df_hist, feature_weights,
                   n_neighbors, metric, raw_df, feat_stats, results, error, prev,
                   response>>

NextRun ==
    \/ RunAssemble
    \/ CallFindLikeDays
    \/ RunProfiles

SpecRun == InitRun /\ [][NextRun]_vars

----------------------------------------------------------------------------
(* POST /like-day (api.py) *)

\* A query string is a sequence of tokens: the separators ",", ":", "." and
\* " ", and words that hold none of them; "" is <<>>.  The weights of the
\* model are whole numbers, written "2" or "2.0".

VALID_MARKETS == {"da", "rt", "dart"}
VALID_COLS == Range(FEATURE_COLS)

\* the string the tokens spell
RECURSIVE Text(_)
Text(tokens) == IF tokens = <<>> THEN "" ELSE Head(tokens) \o Text(Tail(tokens))

\* place of the first and of the last sep in tokens
FirstAt(tokens, sep) ==
    CHOOSE i \in DOMAIN tokens : tokens[i] = sep /\ \A j \in 1..(i - 1) : tokens[j] # sep
LastAt(tokens, sep) ==
    CHOOSE i \in DOMAIN tokens :
        tokens[i] = sep /\ \A j \in (i + 1)..Len(tokens) : tokens[j] # sep

\* s.split(sep, 1) and s.rsplit(sep, 1) of an s that holds sep
SplitFirst(tokens, sep) ==
    <<SubSeq(tokens, 1, FirstAt(tokens, sep) - 1),
      SubSeq(tokens, FirstAt(tokens, sep) + 1, Len(tokens))>>
SplitLast(tokens, sep) ==
    <<SubSeq(tokens, 1, LastAt(tokens, sep) - 1),
      SubSeq(tokens, LastAt(tokens, sep) + 1, Len(tokens))>>

\* s.split(sep)
RECURSIVE Split(_, _)
Split(tokens, sep) ==
    IF sep \notin Range(tokens) THEN <<tokens>>
    ELSE <<SplitFirst(tokens, sep)[1]>> \o Split(SplitFirst(tokens, sep)[2], sep)

\* s.strip()
RECURSIVE Strip(_)
Strip(tokens) ==
    IF tokens = <<>> THEN tokens
    ELSE IF Head(tokens) = " " THEN Strip(Tail(tokens))
    ELSE IF tokens[Len(tokens)] = " " THEN Strip(SubSeq(tokens, 1, Len(tokens) - 1))
    ELSE tokens

\* s.lower(), on the words of the model
LowerWord(w) ==
    IF w = "DA" THEN "da"
    ELSE IF w = "RT" THEN "rt"
    ELSE IF w = "DART" THEN "dart"
    ELSE IF w = "LMP_TOTAL" THEN "lmp_total"
    ELSE w
Lower(tokens) == [i \in DOMAIN tokens |-> LowerWord(tokens[i])]

Digits == <<"0", "1", "2", "3", "4", "5", "6", "7">>

\* int(s): the number, None for the ValueError
ParseInt(tokens) ==
    LET t == Text(Strip(tokens))
    IN  IF \E i \in DOMAIN Digits : Digits[i] = t
        THEN Some(IndexOf(Digits, t) - 1)
        ELSE None

\* float(s): the number, None for the ValueError
ParseFloat(tokens) ==
    LET t == Text(Strip(tokens))
        plain(i) == t \in {Digits[i], Digits[i] \o ".0"}
        minus(i) == t \in {"-" \o Digits[i], "-" \o Digits[i] \o ".0"}
    IN  IF \E i \in DOMAIN Digits : plain(i)
        THEN Some((CHOOSE i \in DOMAIN Digits : plain(i)) - 1)
        ELSE IF \E i \in DOMAIN Digits : minus(i)
        THEN Some(1 - (CHOOSE i \in DOMAIN Digits : minus(i)))
        ELSE None

\* "if s": the parameter is given and not empty
Truthy(o) == o # None /\ The(o) # <<>>

\* lines 55-57: [int(h) for h in s.split(",")] if s else None
IntListFails(o) ==
    /\ Truthy(o)
    /\ \E i \in DOMAIN Split(The(o), ",") : ParseInt(Split(The(o), ",")[i]) = None
IntList(o) ==
    IF Truthy(o)
    THEN Some([i \in DOMAIN Split(The(o), ",") |-> The(ParseInt(Split(The(o), ",")[i]))])
    ELSE None

RECURSIVE Flatten(_)
Flatten(seqs) == IF seqs = <<>> THEN <<>> ELSE Head(seqs) \o Flatten(Tail(seqs))

\* lines 64-77: what one entry of features appends to features_list
FeatureEntry(raw) ==
    LET entry == Strip(raw)
    IN  IF ":" \notin Range(entry) THEN <<>>
        ELSE LET spec == SplitLast(entry, ":")[1]
                 weight_str == SplitLast(entry, ":")[2]
             IN  IF "." \notin Range(spec) THEN <<>>
                 ELSE LET mkt == Text(Lower(Strip(SplitFirst(spec, ".")[1])))
                          col == Text(Strip(SplitFirst(spec, ".")[2]))
                      IN  IF /\ mkt \in VALID_MARKETS
                             /\ col \in VALID_COLS
                             /\ ParseFloat(weight_str) # None
                          THEN <<Feature(mkt, col, The(ParseFloat(weight_str)))>>
                          ELSE <<>>

\* lines 60-79: features_list out of features, None when nothing is left
ParseFeatures(features) ==
    IF ~Truthy(features) THEN None
    ELSE LET entries == Split(The(features), ",")
             list == Flatten([i \in DOMAIN entries |-> FeatureEntry(entries[i])])
         IN  IF list = <<>> THEN None ELSE Some(list)

\* lines 86-94: what one pair of the deprecated feature_weights appends
WeightPair(raw, market) ==
    LET pair == Strip(raw)
    IN  IF ":" \notin Range(pair) THEN <<>>
        ELSE LET col == Text(Strip(SplitFirst(pair, ":")[1]))
                 w == SplitFirst(pair, ":")[2]
             IN  IF col \in VALID_COLS /\ ParseFloat(w) # None
                 THEN <<Feature(market, col, The(ParseFloat(w)))>>
                 ELSE <<>>

\* lines 82-100: features_list out of the deprecated parameters
ParseDeprecated(feature_weights_str, feature_cols_str, market) ==
    IF Truthy(feature_weights_str)
    THEN LET pairs == Split(The(feature_weights_str), ",")
             list == Flatten([i \in DOMAIN pairs |-> WeightPair(pairs[i], market)])
         IN  IF list = <<>> THEN None ELSE Some(list)
    ELSE IF Truthy(feature_cols_str)
    THEN LET parts == Split(The(feature_cols_str), ",")
             cols == SelectSeq([i \in DOMAIN parts |-> Text(Strip(parts[i]))],
                               LAMBDA c : c \in VALID_COLS)
         IN  IF cols = <<>> THEN None
             ELSE Some([i \in DOMAIN cols |-> Feature(market, cols[i], 1)])
    ELSE None

\* lines 60-104: the features handed to run
FeaturesList(q) ==
    IF ParseFeatures(q.features) # None THEN The(ParseFeatures(q.features))
    ELSE IF ParseDeprecated(q.feature_weights, q.feature_cols, q.market) # None
    THEN The(ParseDeprecated(q.feature_weights, q.feature_cols, q.market))
    ELSE <<Feature(q.market, "lmp_total", 1)>>

\* str(date): day 1 is Friday 2026-01-30
DateStr(d) == <<"2026-01-30", "2026-01-31", "2026-02-01">>[d]

\* da has each date in full, short by an hour, or not at all; rt and dart
\* have every date in full
ApiSources ==
    {("da" :> MarketTable("da", f))
        @@ ("rt" :> MarketTable("rt", [d \in RunDates |-> Hours]))
        @@ ("dart" :> MarketTable("dart", [d \in RunDates |-> Hours])) :
     f \in [RunDates -> {{}, {1}, Hours}]}

Queries ==
    [target_date : {None, Some(2), Some(3)},
     market : {"da", "rt", "xx"},
     n_neighbors : {0, MaxN},
     metric : {"cosine"},
     hist_start : {None},
     hist_end : {None},
     hours : {None, Some(<<"1">>), Some(<<"1", ",", "x">>)},
     days_of_week : {None, Some(<<"5", ",", " ", "6">>)},
     months : {None},
     features : {None,
                 Some(<<"da", ".", "lmp_total", ":", "2", ",",
                        " ", "RT", ".", "lmp_total", ":", "1", ".", "0">>),
                 Some(<<"xx", ".", "lmp_total", ":", "1", ",", "da", ".", "lmp_total">>),
                 Some(<<"rt", ".", "lmp_total", ":", "x", ",",
                        "da", ".", "lmp_congestion_price", " ", ":", "1">>),
                 Some(<<"da", ".", "lmp_total", ":", "0">>),
                 Some(<<"da", ".", "lmp_total", ":", "2", ",",
                        "rt", ".", "lmp_total", ":", "-1">>)},
     feature_cols : {None, Some(<<"bogus", ",", " ", "lmp_total">>)},
     feature_weights : {None, Some(<<"lmp_congestion_price", ":", "2">>)}]

InitApi ==
    /\ pc = "request"
    /\ source \in ApiSources
    /\ query \in Queries
    /\ args = NoArgs
    /\ df = EmptyFrame
    /\ df_target = EmptyFrame
    /\ df_hist = EmptyFrame
    /\ feature_weights = EmptyDict
    /\ n_neighbors = 0
    /\ metric = ""
    /\ raw_df = <<>>
    /\ feat_stats = <<>>
    /\ results = <<>>
    /\ error = ""
    /\ prev = <<>>
    /\ output = None
    /\ pulls = 0
    /\ response = NoResponse

\* line 39: Query(ge=1, le=20) refuses the request before the handler runs
RejectQuery ==
    /\ pc = "request"
    /\ query.n_neighbors \notin 1..20
    /\ response' = [status |-> 422, detail |-> "n_neighbors", body |-> None]
    /\ pc' = "responded"
    /\ UNCHANGED <<source, query, args, df, df_target, df_hist, feature_weights,
                   n_neighbors, metric, raw_df, feat_stats, results, error, prev,
                   output, pulls>>

\* lines 55-57: int() raises outside the try, the server answers 500
ParseQueryFails ==
    /\ pc = "request"
    /\ query.n_neighbors \in 1..20
    /\ IntListFails(query.hours) \/ IntListFails(query.days_of_week)
          \/ IntListFails(query.months)
    /\ response' = [status |-> 500, detail |-> "Internal Server Error", body |-> None]
    /\ pc' = "responded"
    /\ UNCHANGED <<source, query, args, df, df_target, df_hist, feature_weights,
                   n_neighbors, metric, raw_df, feat_stats, results, error, prev,
                   output, pulls>>

\* lines 51-118: the arguments of run out of the query; tomorrow is the day
\* after the server's clock when no target date is given
ParseQuery ==
    /\ pc = "request"
    /\ query.n_neighbors \in 1..20
    /\ ~IntListFails(query.hours)
    /\ ~IntListFails(query.days_of_week)
    /\ ~IntListFails(query.months)
    /\ \E tomorrow \in RunTargets :
          args' = [target_date |-> IF query.target_date = None
                                   THEN tomorrow ELSE The(query.target_date),
                   features |-> FeaturesList(query),
                   n_neighbors |-> query.n_neighbors,
                   metric |-> query.metric,
                   hist_start |-> query.hist_start,
                   hist_end |-> query.hist_end,
                   hours |-> IntList(query.hours),
                   days_of_week |-> IntList(query.days_of_week),
                   months |-> IntList(query.months)]
    /\ pc' = "run"
    /\ UNCHANGED <<source, query, df, df_target, df_hist, feature_weights,
                   n_neighbors, metric, raw_df, feat_stats, results, error, prev,
                   output, pulls, response>>

\* run, line 76: the query of lmps.pull fails for a market the source does
\* not have, and the exception leaves run
PullFails ==
    /\ pc = "run"
    /\ \E i \in DOMAIN args.features : args.features[i].market \notin DOMAIN source
    /\ pulls' = pulls + 1
    /\ error' = "pull failed"
    /\ pc' = "raised"
    /\ UNCHANGED <<source, query, args, df, df_target, df_hist, feature_weights,
                   n_neighbors, metric, raw_df, feat_stats, results, prev, output,
                   response>>

\* lines 119-121: whatever run raised becomes HTTPException(status_code=500)
RespondError ==
    /\ pc = "raised"
    /\ query # NoQuery
    /\ response' = [status |-> 500, detail |-> "Pipeline error: " \o error, body |-> None]
    /\ pc' = "responded"
    /\ UNCHANGED <<source, query, args, df, df_target, df_hist, feature_weights,
                   n_neighbors, metric, raw_df, feat_stats, results, error, prev,
                   output, pulls>>

\* lines 123-140: the records of the answer, the dates as strings
Respond ==
    /\ pc = "done"
    /\ query # NoQuery
    /\ LET out == The(output)
           hourly_df == out.hourly_profiles
       IN  response' =
             [status |-> 200,
              detail |-> "",
              body |-> Some(
                 [target_date |-> DateStr(args.target_date),
                  metric |-> args.metric,
                  n_neighbors |-> args.n_neighbors,
                  like_days |->
                      [i \in DOMAIN out.like_days |->
                          [out.like_days[i] EXCEPT !.date = DateStr(@)]],
                  hourly_profiles |->
                      {[market |-> k[1], date |-> DateStr(k[2]), hour_ending |-> k[3],
                        prices |-> hourly_df[k]] : k \in DOMAIN hourly_df}])]
    /\ pc' = "responded"
    /\ UNCHANGED <<source, query, args, df, df_target, df_hist, feature_weights,
                   n_neighbors, metric, raw_df, feat_stats, results, error, prev,
                   output, pulls>>

NextApi ==
    \/ RejectQuery
    \/ ParseQueryFails
    \/ ParseQuery
    \/ RunAssemble
    \/ PullFails
    \/ CallFindLikeDays
    \/ RunProfiles
    \/ RespondError
    \/ Respond

SpecApi == InitApi /\ [][NextApi]_vars

----------------------------------------------------------------------------
(* Calls of _compute_metric *)

\* the hourly rows of date d whose first feature is v[h] at hour h
VectorFrame(d, v) == [k \in {<<d, h>> : h \in DOMAIN v} |-> (FeatA :> v[k[2]])]

Vectors(n) == [1..n -> Values]

InitMetric ==
    /\ pc = "metric"
    /\ source = <<>>
    /\ query = NoQuery
    /\ args = NoArgs
    /\ df = EmptyFrame
    /\ \E n \in 1..Cardinality(Hours) :
          /\ df_target \in {VectorFrame(TargetDate, v) : v \in Vectors(n)}
          /\ df_hist \in {VectorFrame(1, v) : v \in Vectors(n)}
    /\ feature_weights = [keys |-> <<FeatA>>, val |-> (FeatA :> 1)]
    /\ n_neighbors = 1
    /\ metric = "cosine"
    /\ raw_df = <<>>
    /\ feat_stats = <<>>
    /\ results = <<>>
    /\ error = ""
    /\ prev = <<>>
    /\ output = None
    /\ pulls = 0
    /\ response = NoResponse

\* lines 91-94 for one day and one feature, the metric in binary floating point
CallComputeMetric ==
    /\ pc = "metric"
    /\ metric = "cosine"
    /\ LET t_vals == ColValues(df_target, FeatA)
           h_vals == ColValues(df_hist, FeatA)
       IN  raw_df' = <<[date |-> 1,
                        raw |-> (FeatA :> CosineDistanceFloat(t_vals, h_vals)),
                        distance |-> Fin(0)]>>
    /\ pc' = "computed"
    /\ UNCHANGED <<source, query, args, df, df_target, df_hist, feature_weights,
                   n_neighbors, metric, feat_stats, results, error, prev, output,
                   pulls, response>>

NextMetric == CallComputeMetric

SpecMetric == InitMetric /\ [][NextMetric]_vars

----------------------------------------------------------------------------
(* Claims about find_like_days, checked under SpecRank *)

\* the number of hourly rows of the target day
TargetHours == Cardinality(DOMAIN df_target)

\* the days of the pool that have exactly the target's number of hourly rows
MatchingDates == {d \in FrameDates(df_hist) : HourCount(df_hist, d) = TargetHours}

\* no row has a larger distance than the row after it
NonDecreasing(rows) ==
    \A i \in 1..(Len(rows) - 1) : ~FLt(rows[i + 1].distance, rows[i].distance)

RanksAre(rows, n) == Len(rows) = n /\ \A i \in DOMAIN rows : rows[i].rank = i

Min2(a, b) == IF a < b THEN a ELSE b

\* C1 as stated: for a pool of at least 2 days and any weighting, the returned
\* rows are in non-decreasing order of distance and their ranks are exactly
\* 1..N, N the requested n_neighbors.
C1_AsStated ==
    (pc = "returned" /\ Cardinality(FrameDates(df_hist)) >= 2)
        => NonDecreasing(results) /\ RanksAre(results, n_neighbors)

\* C1 amended: for a pool of at least 2 days and any weighting, the returned
\* rows are in non-decreasing order of distance and their ranks are exactly
\* 1..M, M the smaller of n_neighbors and the number of pool days that have
\* the target's hour count.
C1_RanksUpToPoolSize ==
    (pc = "returned" /\ Cardinality(FrameDates(df_hist)) >= 2)
        => /\ NonDecreasing(results)
           /\ RanksAre(results, Min2(n_neighbors, Cardinality(MatchingDates)))

C1_Witness ==
    /\ pc = "returned"
    /\ Cardinality(FrameDates(df_hist)) >= 2
    /\ n_neighbors = 2
    /\ Len(results) = 2
    /\ FLt(results[1].distance, results[2].distance)
    /\ results[1].date > results[2].date

\* the pool without the days whose hour count differs from the target's
MatchingPool == [k \in {kk \in DOMAIN df_hist : kk[1] \in MatchingDates} |-> df_hist[k]]

\* C3: a historical day whose number of hourly rows differs from the target's
\* is in no returned row, for every metric, weighting and n_neighbors, and the
\* per-feature mean and std are those of the matching days alone: the call
\* computes and returns what it does on the pool without such days.
C3_MismatchedDaysExcluded ==
    pc = "returned" =>
        /\ \A i \in DOMAIN results : results[i].date \in MatchingDates
        /\ {raw_df[i].date : i \in DOMAIN raw_df} = MatchingDates
        /\ LET alone == FindLikeDays(df_target, MatchingPool, feature_weights,
                                     FEATURE_COLS, n_neighbors, metric)
           IN  feat_stats = alone.feat_stats /\ results = alone.results

\* a pool day with more hours than the target whose first hour equals the target's
C3_Witness ==
    /\ pc = "returned"
    /\ TargetHours = 1
    /\ \E d \in FrameDates(df_hist) :
          /\ HourCount(df_hist, d) = 2
          /\ <<TargetDate, 1>> \in DOMAIN df_target
          /\ df_hist[<<d, 1>>] = df_target[<<TargetDate, 1>>]
    /\ Len(results) = 1

SomeDistanceSmaller(rows) ==
    \E i, j \in DOMAIN rows : FLt(rows[i].distance, rows[j].distance)

One == Fin(Scale)
Zero == Fin(0)

\* C4: every similarity is in [0, 1]; when more than one row is returned and
\* the distances are not all equal, the first row has similarity 1.0 and the
\* last 0.0; when no distance is smaller than another (one row included), every
\* similarity is 1.0.
C4_SimilarityBounds ==
    pc = "returned" =>
        /\ \A i \in DOMAIN results :
              /\ results[i].similarity.k = "fin"
              /\ results[i].similarity.v >= 0
              /\ results[i].similarity.v <= Scale
        /\ (Len(results) > 1 /\ SomeDistanceSmaller(results))
              => /\ results[1].similarity = One
                 /\ results[Len(results)].similarity = Zero
                 /\ \A i \in DOMAIN results :
                       ~FLt(results[i].distance, results[1].distance)
        /\ ~SomeDistanceSmaller(results)
              => \A i \in DOMAIN results : results[i].similarity = One

C4_Witness ==
    /\ pc = "returned"
    /\ Len(results) = 2
    /\ SomeDistanceSmaller(results)
    /\ results[1].similarity = One
    /\ results[2].similarity = Zero

SameRanking(r1, r2) ==
    /\ Len(r1) = Len(r2)
    /\ \A i \in DOMAIN r1 : r1[i].date = r2[i].date /\ r1[i].rank = r2[i].rank

SameSimilarity(r1, r2) ==
    /\ Len(r1) = Len(r2)
    /\ \A i \in DOMAIN r1 : r1[i].similarity = r2[i].similarity

\* C5: multiplying every feature weight by the same positive constant, the
\* frames, n_neighbors and the metric unchanged, changes neither the returned
\* dates, nor their ranks, nor their similarities.
C5_WeightScaleInvariant ==
    pc = "rescaled" =>
        error = "" /\ SameRanking(results, prev) /\ SameSimilarity(results, prev)

\* two features with different non-zero weights that rank the two days differently
C5_Witness ==
    /\ pc = "rescaled"
    /\ Len(feature_weights.keys) = 2
    /\ feature_weights.val[FeatA] = 3
    /\ feature_weights.val[FeatB] = 6
    /\ Len(results) = 2
    /\ FLt(raw_df[1].distance, raw_df[2].distance)
    /\ raw_df[1].raw[FeatA] > raw_df[2].raw[FeatA]

\* C6: the call with two features weighted 2 and 0 returns the same dates in
\* the same rank order as the call with the weight-2 feature alone.
C6_ZeroWeightIgnored ==
    (pc = "dropped" /\ \A col \in DOMAIN feature_weights.val : feature_weights.val[col] = 2)
        => error = "" /\ SameRanking(results, prev)

\* the weight-2 feature puts the later day first
C6_Witness ==
    /\ pc = "dropped"
    /\ feature_weights.keys = <<FeatA>>
    /\ feature_weights.val[FeatA] = 2
    /\ Len(results) = 2
    /\ results[1].date > results[2].date
    /\ SameRanking(results, prev)

----------------------------------------------------------------------------
(* Claims about pipeline.run, checked under SpecRun *)

RequestedMarkets == Range(UniqueMarkets(args.features))

Assembled == pc \in {"call", "returned", "raised", "done"}

\* C2: whatever hist_start, hist_end, weekday and month filters are given,
\* every date of the pool handed to find_like_days, and so every date of the
\* ranked output, is strictly earlier than the target date.
C2_PoolBeforeTarget ==
    Assembled =>
        /\ \A k \in DOMAIN df_hist : k[1] < args.target_date
        /\ \A i \in DOMAIN results : results[i].date < args.target_date

\* hist_end is after the target date, the joined table has a later date, and
\* days were ranked
C2_Witness ==
    /\ pc = "done"
    /\ args.hist_end # None
    /\ The(args.hist_end) > args.target_date
    /\ \E k \in DOMAIN df : k[1] > args.target_date
    /\ Len(results) >= 1

\* C7: every (date, hour) row of the joined table is in the table of every
\* requested market and has a value for every market-qualified feature
\* column; a (date, hour) that one requested market lacks is neither in the
\* target profile nor in the historical pool.
C7_InnerJoin ==
    Assembled =>
        /\ \A k \in DOMAIN df :
              /\ \A m \in RequestedMarkets : k \in DOMAIN source[m]
              /\ \A m \in RequestedMarkets, c \in Range(LMP_COLS) :
                    /\ Prefix(m, c) \in DOMAIN df[k]
                    /\ df[k][Prefix(m, c)] = source[m][k][c]
        /\ \A k \in DOMAIN df_target \cup DOMAIN df_hist :
              k \in DOMAIN df /\ \A m \in RequestedMarkets : k \in DOMAIN source[m]

\* two markets, a (date, hour) only one of them has, and rows that survive
C7_Witness ==
    /\ pc = "call"
    /\ RequestedMarkets = {"da", "rt"}
    /\ \E k \in DOMAIN source["da"] : k \notin DOMAIN source["rt"]
    /\ \E k \in DOMAIN source["rt"] : k \notin DOMAIN source["da"]
    /\ df_target # EmptyFrame
    /\ df_hist # EmptyFrame

\* two markets are asked for and their tables, neither empty, share no date
NoCommonDates ==
    /\ Cardinality(RequestedMarkets) = 2
    /\ \A m \in RequestedMarkets : source[m] # EmptyFrame
    /\ \A m1, m2 \in RequestedMarkets :
          m1 # m2 => FrameDates(source[m1]) \cap FrameDates(source[m2]) = {}

\* C8 as stated: with two markets whose tables share no date, the join leaves
\* an empty historical pool and the request fails with the empty-pool failure.
C8_AsStated ==
    (NoCommonDates /\ pc \in {"returned", "raised", "done"})
        => /\ df_hist = EmptyFrame
           /\ pc = "raised"
           /\ error = "No historical days matched the target hours"

\* C8 amended: with two markets whose tables share no date, the join leaves no
\* row at all, so the target day and the historical pool are both empty, and
\* the request fails with the validation failure of the target day, "Target
\* date has no hourly data", which find_like_days checks first.
C8_EmptyJoinFailsOnTarget ==
    (NoCommonDates /\ Assembled)
        => /\ df = EmptyFrame /\ df_target = EmptyFrame /\ df_hist = EmptyFrame
           /\ pc \in {"call", "raised"}
           /\ pc = "raised" => error = "Target date has no hourly data" /\ output = None

C8_Witness ==
    /\ NoCommonDates
    /\ pc = "raised"
    /\ args.target_date \in FrameDates(source["da"])
    /\ \E d \in FrameDates(source["da"]) : d < args.target_date

ValidationErrors ==
    {"Target date has no hourly data", "No historical days matched the target hours"}

\* C9: when the target day has no row after the join and the hour filter, or
\* the filtered pool is empty, or no pool day has the target's hour count, run
\* fails with a ValueError, returns neither like_days nor hourly_profiles, and
\* pulls nothing from the price source after the pulls of the join.
C9_ValidationAborts ==
    (pc \in {"returned", "raised", "done"}
        /\ (df_target = EmptyFrame \/ df_hist = EmptyFrame \/ MatchingDates = {}))
        => /\ pc = "raised"
           /\ error \in ValidationErrors
           /\ results = <<>>
           /\ output = None
           /\ pulls = Cardinality(RequestedMarkets)

\* a target day and a pool that have rows, and no pool day of the target's length
C9_Witness ==
    /\ pc = "raised"
    /\ df_target # EmptyFrame
    /\ df_hist # EmptyFrame
    /\ MatchingDates = {}
    /\ error = "No historical days matched the target hours"
    /\ pulls = 2

----------------------------------------------------------------------------
(* Claims about POST /like-day, checked under SpecApi *)

\* C10 as stated: a validation error raised inside assembly or ranking (empty
\* target day, empty pool, no day of the target's hour count) reaches the
\* caller as a 4xx failure whose message describes it.
C10_AsStated ==
    (pc = "responded" /\ error \in ValidationErrors)
        => /\ response.status \in 400..499
           /\ response.detail = "Pipeline error: " \o error

----------------------------------------------------------------------------
(* Claims about the metric, checked under SpecRank *)

KnownMetrics == {"mae", "rmse", "euclidean", "cosine"}

\* C11: for a metric name that is none of mae, rmse, euclidean and cosine,
\* find_like_days raises nothing on account of the name and returns exactly
\* the dates, ranks, distances and similarities it returns for mae on the same
\* frames, weights and n_neighbors.
C11_UnknownMetricIsMae ==
    (pc \in {"returned", "raised"} /\ metric \notin KnownMetrics)
        => LET mae == FindLikeDays(df_target, df_hist, feature_weights, FEATURE_COLS,
                                   n_neighbors, "mae")
           IN  error = mae.error /\ results = mae.results /\ raw_df = mae.raw_df

\* an unknown name on frames that cosine, rmse and euclidean rank or score otherwise
C11_Witness ==
    /\ pc = "returned"
    /\ metric = "manhattan"
    /\ Len(results) = 2
    /\ FLt(results[1].distance, results[2].distance)
    /\ \A m \in KnownMetrics \ {"mae"} :
          FindLikeDays(df_target, df_hist, feature_weights, FEATURE_COLS,
                       n_neighbors, m).raw_df # raw_df

----------------------------------------------------------------------------
(* Claims about the parsing of the request, checked under SpecApi *)

\* the request has been parsed and run has its arguments
Parsed == query # NoQuery /\ args # NoArgs

\* C12 as stated: on every parsing path (features, the deprecated
\* feature_weights and feature_cols, the default) every feature handed to
\* pipeline.run has its market in {da, rt, dart} and its column among the
\* price-component names.
C12_AsStated ==
    Parsed => \A i \in DOMAIN args.features :
                 /\ args.features[i].market \in VALID_MARKETS
                 /\ args.features[i].column \in VALID_COLS

\* C13 as stated: for every accepted request every feature weight that reaches
\* find_like_days is non-negative and the weight sum that divides the blended
\* distance is positive.
C13_AsStated ==
    (Parsed /\ pc \in {"returned", "raised", "done", "responded"}
            /\ feature_weights # EmptyDict)
        => /\ \A c \in DOMAIN feature_weights.val : feature_weights.val[c] >= 0
           /\ WeightSum(feature_weights.val, feature_weights.keys) > 0

----------------------------------------------------------------------------
(* Claims about the filters of pipeline.run, checked under SpecRun *)

\* the weekday of a date, 0 = Sunday .. 6 = Saturday: date 1 is Friday 2026-01-30
Weekday(d) == (d + 4) % 7

\* the row is before the target date and passes every filter that is supplied
InPool(k) ==
    /\ k[1] < args.target_date
    /\ args.hist_start # None => k[1] >= The(args.hist_start)
    /\ args.hist_end # None => k[1] <= The(args.hist_end)
    /\ args.days_of_week # None => Weekday(k[1]) \in Range(The(args.days_of_week))
    /\ args.months # None => MonthOf(k[1]) \in Range(The(args.months))

\* the three pool filters with the arguments of the call
ByRange(frame) == FilterDateRange(frame, args.hist_start, args.hist_end)
ByWeekday(frame) == FilterDaysOfWeek(frame, args.days_of_week)
ByMonth(frame) == FilterMonths(frame, args.months)

\* C14: the pool handed to find_like_days is exactly the joined, hour-filtered
\* rows dated before the target date that pass every supplied filter
\* (hist_start <= date <= hist_end, weekday in days_of_week with 0 = Sunday ..
\* 6 = Saturday, month in months); a filter that is not supplied removes no
\* row, and the three filters give the same pool in each of their six orders.
C14_PoolIsFilteredRows ==
    Assembled =>
        /\ df_hist = [k \in {kk \in DOMAIN df : InPool(kk)} |-> df[k]]
        /\ LET before == SplitHist(df, args.target_date)
           IN  /\ df_hist = ByMonth(ByWeekday(ByRange(before)))
               /\ df_hist = ByWeekday(ByMonth(ByRange(before)))
               /\ df_hist = ByMonth(ByRange(ByWeekday(before)))
               /\ df_hist = ByRange(ByMonth(ByWeekday(before)))
               /\ df_hist = ByWeekday(ByRange(ByMonth(before)))
               /\ df_hist = ByRange(ByWeekday(ByMonth(before)))

\* all four filters are supplied; a Saturday of January stays in the pool and
\* the Friday before it is removed
C14_Witness ==
    /\ pc = "call"
    /\ args.hist_start # None /\ args.hist_end # None
    /\ args.days_of_week # None /\ args.months # None
    /\ FrameDates(df_hist) = {2}
    /\ 1 \in FrameDates(df)
    /\ The(args.hist_end) = 3

----------------------------------------------------------------------------
(* Claims about the normalisation, checked under SpecRank *)

\* a call has returned: the first one, the rescaled one or the one without
\* the zero weights
Returned == pc \in {"returned", "rescaled", "dropped"} /\ error = ""

\* one feature, of positive weight
SingleFeature ==
    /\ Len(feature_weights.keys) = 1
    /\ feature_weights.val[feature_weights.keys[1]] > 0

\* the compared days whose raw distance on the single feature is 0
ZeroRaw == {i \in DOMAIN raw_df : raw_df[i].raw[feature_weights.keys[1]] = 0}

\* C15: with one feature of positive weight and metric mae the final distances
\* are in the order of the raw ones; a day whose profile is that of the target
\* (raw distance 0), the only such day, is rank 1 ahead of every day of
\* non-zero raw distance, and with n_neighbors = 1 its similarity is 1.0.
C15_SingleFeatureKeepsOrder ==
    (Returned /\ metric = "mae" /\ SingleFeature)
        => LET c == feature_weights.keys[1]
           IN  /\ \A i, j \in DOMAIN raw_df :
                     (raw_df[i].raw[c] < raw_df[j].raw[c])
                         <=> FLt(raw_df[i].distance, raw_df[j].distance)
               /\ Cardinality(ZeroRaw) = 1
                     => /\ results[1].date = raw_df[CHOOSE i \in ZeroRaw : TRUE].date
                        /\ results[1].rank = 1
                        /\ n_neighbors = 1 =>
                              Len(results) = 1 /\ results[1].similarity = One

\* the later of two compared days has the target's profile, the earlier has not
C15_Witness ==
    /\ pc = "returned"
    /\ metric = "mae"
    /\ SingleFeature
    /\ n_neighbors = 1
    /\ Len(raw_df) = 2
    /\ ZeroRaw = {2}
    /\ results[1].date = raw_df[2].date
    /\ TargetHours = Cardinality(Hours)
    /\ \A h \in Hours : df_hist[<<raw_df[2].date, h>>] = df_target[<<TargetDate, h>>]

----------------------------------------------------------------------------
(* Claims about _compute_metric, checked under SpecMetric *)

TargetVector == ColValues(df_target, FeatA)
HistVector == ColValues(df_hist, FeatA)

CosineRaw == raw_df[1].raw[FeatA]

\* C16 as stated: the cosine distance is exactly 0 for two identical non-zero
\* vectors and exactly 1 whenever either vector has zero norm, and no division
\* by zero occurs for any pair of vectors.
C16_AsStated ==
    pc = "computed" =>
        /\ CosineRaw.k = "fin"
        /\ (TargetVector = HistVector /\ SumSq(TargetVector) # 0) => CosineRaw = BZero
        /\ (SumSq(TargetVector) = 0 \/ SumSq(HistVector) = 0) => CosineRaw = BFromInt(1)

----------------------------------------------------------------------------
(* Claims about ties, checked under SpecRank *)

\* the dates of the returned rows
ResultDates == {results[i].date : i \in DOMAIN results}

\* C17: compared days of the same final distance are ranked in their input
\* order, the ascending dates of the grouping, and when such days lie on both
\* sides of the n_neighbors cutoff the earlier ones are the ones returned.
C17_TiesInInputOrder ==
    pc = "returned" =>
        /\ \A i, j \in DOMAIN raw_df : i < j => raw_df[i].date < raw_df[j].date
        /\ \A i, j \in DOMAIN results :
              (i < j /\ results[i].distance = results[j].distance)
                  => results[i].date < results[j].date
        /\ \A i \in DOMAIN results : \A j \in DOMAIN raw_df :
              (raw_df[j].date \notin ResultDates
                  /\ raw_df[j].distance = results[i].distance)
                  => results[i].date < raw_df[j].date

\* two compared days of the same finite distance, one of them returned
C17_Witness ==
    /\ pc = "returned"
    /\ n_neighbors = 1
    /\ Len(raw_df) = 2
    /\ raw_df[1].distance = raw_df[2].distance
    /\ raw_df[1].distance.k = "fin"
    /\ raw_df[1].raw # raw_df[2].raw
    /\ results[1].date = 1

----------------------------------------------------------------------------
(* Claims about the hours filter, checked under SpecRun *)

\* the (date, hour) pairs every requested market has a row for
CommonKeys == {k \in UNION {DOMAIN source[m] : m \in RequestedMarkets} :
                 \A m \in RequestedMarkets : k \in DOMAIN source[m]}

\* the joined row of such a pair: every requested market's prefixed columns
JoinedRow(k) ==
    [c \in {Prefix(m, col) : m \in RequestedMarkets, col \in Range(LMP_COLS)} |->
        LET mc == CHOOSE p \in RequestedMarkets \X Range(LMP_COLS) :
                      Prefix(p[1], p[2]) = c
        IN  source[mc[1]][k][mc[2]]]

\* the arguments of the call without the filters of the pool
WithoutPoolFilters ==
    [args EXCEPT !.hist_start = None, !.hist_end = None,
                 !.days_of_week = None, !.months = None]

\* C18: when an hours filter is supplied, every row of the target profile and
\* of the historical pool has its hour in the supplied set; the target profile
\* is exactly the joined rows of the target date at the hours of the set, and
\* hist_start, hist_end, days_of_week and months leave it as it is.
C18_HoursFilterBothSides ==
    (Assembled /\ args.hours # None) =>
        /\ \A k \in DOMAIN df_target \cup DOMAIN df_hist : k[2] \in Range(The(args.hours))
        /\ df_target = [k \in {kk \in CommonKeys : /\ kk[1] = args.target_date
                                                   /\ kk[2] \in Range(The(args.hours))}
                          |-> JoinedRow(k)]
        /\ df_target = Assemble(source, WithoutPoolFilters).df_target

\* hour 2 of the target date and of a pool date is dropped, pool filters are
\* supplied, and both sides keep rows
C18_Witness ==
    /\ pc = "call"
    /\ args.hours = Some(<<1>>)
    /\ args.hist_start # None /\ args.days_of_week # None /\ args.months # None
    /\ <<args.target_date, 2>> \in CommonKeys
    /\ \E k \in CommonKeys : k[1] < args.target_date /\ k[2] = 2
    /\ df_target # EmptyFrame
    /\ df_hist # EmptyFrame

----------------------------------------------------------------------------
(* Claims about degenerate statistics, checked under SpecRank *)

\* the features of the call, and the raw distances of one of them
CallCols == ResolveCols(feature_weights, FEATURE_COLS)
RawOf(c) == [i \in DOMAIN raw_df |-> raw_df[i].raw[c]]

\* the raw distances of the feature are the same on every compared day (one
\* compared day included)
Degenerate(c) == \A i, j \in DOMAIN raw_df : RawOf(c)[i] = RawOf(c)[j]

\* what the feature adds to the blend of the i-th compared day before the
\* division by the weight sum
Contribution(c, i) ==
    feature_weights.val[c]
        * Quot((RawOf(c)[i] - feat_stats[c][1]) * Scale, feat_stats[c][2])

\* the part of C19 about the statistics: 1.0 stands for the standard
\* deviation of a degenerate feature and the feature adds 0 to every blend
DegenerateNeutral ==
    \A c \in Range(CallCols) :
        Degenerate(c) => /\ feat_stats[c][2] = Scale
                         /\ \A i \in DOMAIN raw_df : Contribution(c, i) = 0

\* C19 as stated: when a feature's raw distances are the same on all compared
\* days, or one day only is compared, 1.0 is used for the standard deviation,
\* nothing is raised and the feature adds 0 to every day's final distance;
\* with one compared day the single result has distance 0, rank 1 and
\* similarity 1.0.
C19_AsStated ==
    (pc \in {"returned", "raised"} /\ MatchingDates # {} /\ TargetHours > 0)
        => /\ error = ""
           /\ DegenerateNeutral
           /\ Cardinality(MatchingDates) = 1
                 => /\ Len(results) = 1
                    /\ results[1].distance = Zero
                    /\ results[1].rank = 1
                    /\ results[1].similarity = One

----------------------------------------------------------------------------
(* Claims about the pairing of hours, checked under SpecRank *)

\* the hour labels of the rows a frame holds for one date
HourLabels(frame, d) == {k[2] : k \in {kk \in DOMAIN frame : kk[1] = d}}

\* C20 as stated: each difference pairs the target's value at hour h with the
\* historical day's value at the same hour h; every day in the ranked output
\* has exactly the target day's set of hour labels, not only as many rows.
C20_AsStated ==
    pc = "returned"
        => \A i \in DOMAIN results :
              HourLabels(df_hist, results[i].date) = HourLabels(df_target, TargetDate)

====
